---- MODULE Spec2Model ----
(***************************************************************************)
(* Payment-webhook server (Stripe = Provider A, Paystack = Provider B)     *)
(* writing time-limited entitlements ("tokens") into a Firestore           *)
(* collection.  The repository holds three revisions of the server file:   *)
(* src/unnamed/part_001 (all routes), src/unnamed/part_000 (webhook and    *)
(* thank-you only, both handlers the same statements as in part_001, so    *)
(* it is covered by part_001) and src/src/index.ts (webhook only, with a   *)
(* differently structured handler).                                        *)
(*                                                                         *)
(* A handler is cut into steps at its await points; each step is one       *)
(* action.  Strings that the code inspects (descriptors) are sequences of  *)
(* one-character strings.  Unix times are kept as [days, secs] because     *)
(* the constant 12344343434 of create-dummy-user does not fit in 32 bits.  *)
(***************************************************************************)
EXTENDS Integers, Sequences, FiniteSets, TLC

\* ---------------------------------------------------------------- bounds
\* total number of requests received in one behaviour
MaxRequests == 2
\* number of clock ticks
MaxClock == 1

\* ------------------------------------------------------------- constants
SecondsPerDay == 86400
DefaultDays == 30
TrialDays == 7
MonthDays == 30
YearDays == 365

\* --------------------------------------------------------- JS primitives
\* the value of a missing property / header / query parameter
Undefined == "undefined"

\* mutant of Falsy: the emptiness test is missing
FalsyNever(x) == FALSE

\* `!x` for the string-or-undefined values the handlers test
Falsy(x) == x = Undefined \/ x = ""

Upper == <<"A","B","C","D","E","F","G","H","I","J","K","L","M",
           "N","O","P","Q","R","S","T","U","V","W","X","Y","Z">>
Lower == <<"a","b","c","d","e","f","g","h","i","j","k","l","m",
           "n","o","p","q","r","s","t","u","v","w","x","y","z">>

ToLowerChar(c) ==
  IF \E i \in 1..Len(Upper) : Upper[i] = c
  THEN Lower[CHOOSE i \in 1..Len(Upper) : Upper[i] = c]
  ELSE c

\* String.prototype.toLowerCase
ToLowerCase(s) == [i \in 1..Len(s) |-> ToLowerChar(s[i])]

\* String.prototype.includes
Includes(s, sub) ==
  \E i \in 1..(Len(s) - Len(sub) + 1) : SubSeq(s, i, i + Len(sub) - 1) = sub

\* ------------------------------------------------------------------ time
\* Date.now(): milliseconds since the epoch, as [days, secs, ms]
StartTime == [days |-> 20763, secs |-> 86399, ms |-> 400]

DateNowAt(c) ==
  LET ms == StartTime.ms + c * 700
      s  == StartTime.secs + (ms \div 1000)
  IN  [days |-> StartTime.days + (s \div SecondsPerDay),
       secs |-> s % SecondsPerDay,
       ms   |-> ms % 1000]

\* Math.floor(Date.now() / 1000)
UnixSeconds(t) == [days |-> t.days, secs |-> t.secs]

\* t + n for a Unix time t in seconds and a number of seconds n
AddSeconds(t, n) ==
  LET s == t.secs + n
  IN  [days |-> t.days + (s \div SecondsPerDay), secs |-> s % SecondsPerDay]

TimeLess(a, b) == a.days < b.days \/ (a.days = b.days /\ a.secs < b.secs)

NoTime == [days |-> 0, secs |-> 0]
NoInstant == [days |-> 0, secs |-> 0, ms |-> 0]

\* the literal 12344343434 = 142874 * 86400 + 29834
DummyExpiresAt == [days |-> 142874, secs |-> 29834]

\* ----------------------------------------------------------- descriptors
D_YearPlan == <<"Y","e","a","r"," ","P","l","a","n">>
D_7DayPass == <<"7","-","d","a","y"," ","p","a","s","s">>
D_2027     == <<"2","0","2","7","-","p","r","o","m","o">>
D_30Days   == <<"3","0"," ","d","a","y","s">>
D_30Year   == <<"3","0"," ","Y","E","A","R">>
D_7Year    == <<"Y","e","a","r","l","y"," ","7">>
D_Basic    == <<"B","a","s","i","c">>
D_3and0    == <<"3"," ","0">>
D_Empty    == <<>>

\* the product descriptions / plan names configured at the providers
FullCatalog ==
  {D_YearPlan, D_7DayPass, D_2027, D_30Days, D_30Year, D_7Year, D_Basic,
   D_3and0, D_Empty}

SmallCatalog == {D_YearPlan, D_7DayPass, D_Empty}

\* an optional descriptor: <<>> when the property is absent, <<d>> otherwise
Optional(S) == {<<>>} \cup {<<d>> : d \in S}


\* ---------------------------------------------------------- environment
\* the file that is deployed
Builds == {"part_001", "index"}

\* STRIPE_WEBHOOK_SECRET / PAYSTACK_SECRET_KEY and a key the server does not hold
EndpointSecret == "whsec"
PaystackSecret == "sk_paystack"
WrongKey == "wrong"

\* Stripe's checkout sessions: session id -> customer_details.email
SessionIds == {"cs_a", "cs_b", "cs_none"}
SessionEmail(sid) ==
  CASE sid = "cs_a" -> "a@x.com"
    [] sid = "cs_b" -> "b@x.com"
    [] OTHER -> Undefined

\* Paystack's transactions: reference -> data.customer.email
References == {"ref_a", "ref_b", "ref_none"}
ReferenceEmail(ref) ==
  CASE ref = "ref_a" -> "a@x.com"
    [] ref = "ref_b" -> "b@x.com"
    [] OTHER -> Undefined

StripeEventTypes == {"checkout.session.completed", "invoice.paid"}
PaystackEventTypes == {"subscription.create", "charge.success", "invoice.create"}

\* the raw body of a Stripe webhook delivery
StripeBodies == [type : StripeEventTypes, session : SessionIds]

\* the parsed body of a Paystack webhook delivery; customer = <<>> when
\* data.customer is missing, plan = <<>> when data.plan or its name is missing
PaystackEmails == {"b@x.com", "", Undefined}
PaystackBodies(names) ==
  [event : PaystackEventTypes,
   customer : Optional(PaystackEmails),
   plan : Optional(names)]

\* document ids of the "tokens" collection (auto-generated or caller-supplied);
\* their numeric order stands for the order of the id strings
Ids == 1..MaxRequests

\* customId values of create-dummy-user: absent, a value that is no valid
\* document path (a number, "a/b"), or a usable id
CustomIds ==
  {[present |-> FALSE, valid |-> FALSE, id |-> 0],
   [present |-> TRUE, valid |-> FALSE, id |-> 0]}
  \cup {[present |-> TRUE, valid |-> TRUE, id |-> i] : i \in Ids}

DummyEmails == {"a@x.com", "No email found", Undefined}

\* ------------------------------------------------------------ signatures
\* the signature scheme of the Stripe library, as a keyed digest of the payload
StripeSignature(key, payload) == <<"v1", key, payload>>

\* mutant of ConstructEvent: the signature is not compared with the secret's
ConstructEventAnyKey(body, sig, secret) ==
  IF sig # <<>>
  THEN [ok |-> TRUE, type |-> body.type, session |-> body.session]
  ELSE [ok |-> FALSE, type |-> "", session |-> ""]

\* stripe.webhooks.constructEvent: the parsed event, or a throw
ConstructEvent(body, sig, secret) ==
  IF sig = StripeSignature(secret, body)
  THEN [ok |-> TRUE, type |-> body.type, session |-> body.session]
  ELSE [ok |-> FALSE, type |-> "", session |-> ""]

\* JSON.stringify(req.body)
Stringify(body) == <<"json", body.event, body.customer, body.plan>>

\* crypto.createHmac("sha512", secret).update(msg).digest("hex")
HmacSha512Hex(secret, msg) == <<"sha512", secret, msg>>

NoHeader == <<>>

\* ------------------------------------------------------------- the store
Doc(email, expiresAt, isTrial) ==
  [email |-> email, deviceId |-> "", expiresAt |-> expiresAt,
   isRadioOff |-> FALSE, isTrial |-> isTrial]

NoDoc == [email |-> Undefined, deviceId |-> Undefined, expiresAt |-> NoTime,
          isRadioOff |-> FALSE, isTrial |-> FALSE]

\* collection.where("email", "==", e).get(): the matching ids, in id order
RECURSIVE SortedIds(_)
SortedIds(S) ==
  IF S = {} THEN <<>>
  ELSE LET m == CHOOSE x \in S : \A y \in S : x <= y
       IN  <<m>> \o SortedIds(S \ {m})

WhereEmail(st, e) == SortedIds({id \in DOMAIN st : st[id].email = e})

\* mutant of FreshIds: the id may be one that is already taken
AnyIds(st) == Ids

\* the ids add() can generate: any id no document has yet
FreshIds(st) == Ids \ DOMAIN st

\* Firestore refuses a document with an undefined field value
ValidDoc(d) == d.email # Undefined


\* --------------------------------------------------- the handlers' logic
\* lineItems.data[0]?.description?.toLowerCase() ?? ""
Description(items) == IF items = <<>> THEN <<>> ELSE ToLowerCase(items[1])

\* index.ts: lineItems.data[0]?.description?.toLowerCase() ?? "30days"
ItemName(items) ==
  IF items = <<>> THEN <<"3","0","d","a","y","s">> ELSE ToLowerCase(items[1])

\* event.data.plan?.name?.toLowerCase() || ""
PlanName(plan) == IF plan = <<>> THEN <<>> ELSE ToLowerCase(plan[1])

\* mutant of DurationDays: "year" is tested before "30"
DurationDaysYearFirst(description) ==
  IF Includes(description, <<"7">>) THEN TrialDays
  ELSE IF Includes(description, <<"y","e","a","r">>) THEN YearDays
  ELSE IF Includes(description, <<"3","0">>) THEN MonthDays
  ELSE DefaultDays

\* let durationDays = 30; if (...includes("7")) ... else if ...
DurationDays(description) ==
  IF Includes(description, <<"7">>) THEN TrialDays
  ELSE IF Includes(description, <<"3","0">>) THEN MonthDays
  ELSE IF Includes(description, <<"y","e","a","r">>) THEN YearDays
  ELSE DefaultDays

\* mutant of ExpiresAt: the days are converted as hours
ExpiresAtHours(now, durationDays) ==
  AddSeconds(UnixSeconds(now), durationDays * 3600)

\* Math.floor(Date.now() / 1000) + durationDays * 86400
ExpiresAt(now, durationDays) ==
  AddSeconds(UnixSeconds(now), durationDays * SecondsPerDay)

\* the object the Stripe webhook passes to add()
StripeDoc(email, expiresAt) == Doc(email, expiresAt, FALSE)

\* mutant of PaystackDoc: the trial flag follows "30" instead of "7"
PaystackDocTrialOn30(customerEmail, expiresAt, planName) ==
  Doc(customerEmail, expiresAt, Includes(planName, <<"3","0">>))

\* the object the Paystack webhook passes to add()
PaystackDoc(customerEmail, expiresAt, planName) ==
  Doc(customerEmail, expiresAt, Includes(planName, <<"7">>))

\* the object create-dummy-user passes to set()
DummyDoc(email) == Doc(email, DummyExpiresAt, FALSE)

\* session.customer_details?.email ?? "No email found"
CustomerDetailsEmail(e) == IF e = Undefined THEN "No email found" ELSE e

\* ----------------------------------------------------------------- state
VARIABLES
  build,   \* the deployed file
  catalog, \* the descriptions and plan names the providers can report
  clock,   \* ticks of the wall clock
  store,   \* the "tokens" collection: document id -> document
  log,     \* history of the writes the store accepted, oldest first
  req      \* the requests: position in the handler, locals, response

vars == <<build, catalog, clock, store, log, req>>

Requests == 1..MaxRequests

DateNow == DateNowAt(clock)

\* a request that has not arrived yet; fault records what went wrong for the
\* request: "input" a required input is missing, "api" a call to a payment
\* provider's API failed, "store" a call to the document store failed, ""
\* nothing
NewRequest ==
  [pc |-> "new", route |-> "", sigOk |-> FALSE, evType |-> "", ref |-> "",
   email |-> Undefined, desc |-> <<>>, doc |-> NoDoc, target |-> 0,
   at |-> NoInstant, status |-> 0, sends |-> 0, calls |-> 0, wrote |-> 0,
   rejected |-> FALSE, documentId |-> 0, fault |-> ""]

\* res.status(code).send(...) / res.json(...): the first call answers the
\* request, a later one throws ERR_HTTP_HEADERS_SENT
Send(q, code) ==
  IF q.sends = 0
  THEN [q EXCEPT !.status = code, !.sends = 1]
  ELSE [q EXCEPT !.sends = @ + 1, !.rejected = TRUE]

\* the handler returns (or its promise settles): its locals are gone, what
\* stays is what the request was and what it did
Done(q) ==
  [q EXCEPT !.pc = "done", !.desc = <<>>, !.doc = NoDoc, !.at = NoInstant]

\* requests arrive in index order
Arrives(r) ==
  /\ req[r].pc = "new"
  /\ \A k \in Requests : k < r => req[k].pc # "new"

\* the entry the history gets for a write of request r (record q) to
\* document id: when, by which request, on which route, with which email
Written(id, r, q) ==
  [id |-> id, at |-> UnixSeconds(DateNow), by |-> r, route |-> q.route,
   email |-> q.doc.email]

HasRoute(route) ==
  IF build = "part_001" THEN TRUE ELSE route = "/webhook"

Init ==
  /\ build \in Builds
  /\ catalog = SmallCatalog
  /\ clock = 0
  /\ store = << >>
  /\ log = << >>
  /\ req = [r \in Requests |-> NewRequest]

Tick ==
  /\ clock < MaxClock
  /\ clock' = clock + 1
  /\ UNCHANGED <<build, catalog, store, log, req>>


\* --------------------------------------------- POST /webhook (Provider A)
\* the stripe-signature headers a delivery can carry: none, the right one, one
\* made with another key, one made for another payload
StripeHeaders(body) ==
  {NoHeader,
   StripeSignature(EndpointSecret, body),
   StripeSignature(WrongKey, body),
   StripeSignature(EndpointSecret,
                   [body EXCEPT !.type = IF @ = "invoice.paid"
                                         THEN "checkout.session.completed"
                                         ELSE "invoice.paid"])}

\* mutant of AfterTry: the handler acknowledges whatever happened
AfterTryAck(q, ok) == Done(Send(q, 200))

\* what follows the try/catch of the checkout branch: part_001 and part_000
\* fall through to the final res.status(200).send, index.ts returns from the
\* catch block and sends nothing inside the try block
AfterTry(q, ok) ==
  IF build = "index"
  THEN (IF ok THEN Done(Send(q, 200)) ELSE Done(Send(q, 500)))
  ELSE (IF ok THEN Done(Send(Send(q, 200), 200))
              ELSE Done(Send(Send(q, 500), 200)))

\* the handler up to its first await
StripeWebhook(r) ==
  /\ Arrives(r)
  /\ HasRoute("/webhook")
  /\ \E body \in StripeBodies :
       \E sig \in StripeHeaders(body) :
         LET ev == ConstructEvent(body, sig, EndpointSecret)
             q  == [req[r] EXCEPT !.route = "/webhook",
                                  !.sigOk = (sig = StripeSignature(EndpointSecret, body)),
                                  !.evType = body.type, !.ref = body.session]
             email == SessionEmail(ev.session)
         IN  req' = [req EXCEPT ![r] =
               IF ~ev.ok THEN Done(Send(q, 400))
               ELSE IF ev.type = "checkout.session.completed"
                    THEN IF Falsy(email)
                         THEN Done(Send(q, 400))
                         ELSE [q EXCEPT !.pc = "listLineItems",
                                        !.email = email,
                                        !.calls = @ + 1]
                    ELSE Done(Send(q, 200))]
  /\ UNCHANGED <<build, catalog, clock, store, log>>

\* stripe.checkout.sessions.listLineItems settles
ListLineItemsReturn(r) ==
  /\ req[r].pc = "listLineItems"
  /\ \E ok \in BOOLEAN :
       \E items \in (IF ok THEN Optional(catalog) ELSE {<<>>}) :
         LET q == req[r]
             description == IF build = "index" THEN ItemName(items)
                                               ELSE Description(items)
             expiresAt == ExpiresAt(DateNow, DurationDays(description))
         IN  req' = [req EXCEPT ![r] =
               IF ok
               THEN [q EXCEPT !.pc = "add", !.desc = items,
                              !.at = DateNow,
                              !.doc = StripeDoc(q.email, expiresAt)]
               ELSE AfterTry([q EXCEPT !.fault = "api"], FALSE)]
  /\ UNCHANGED <<build, catalog, clock, store, log>>

\* db.collection("tokens").add(...) settles: the document is stored under a
\* fresh id, or the write fails and nothing is stored
StripeAddReturn(r) ==
  /\ req[r].pc = "add"
  /\ req[r].route = "/webhook"
  /\ \/ \E id \in FreshIds(store) :
          /\ store' = store @@ (id :> req[r].doc)
          /\ log' = Append(log, Written(id, r, req[r]))
          /\ req' = [req EXCEPT ![r] = AfterTry([req[r] EXCEPT !.wrote = id], TRUE)]
     \/ /\ req' = [req EXCEPT ![r] =
                     AfterTry([req[r] EXCEPT !.fault = "store"], FALSE)]
        /\ UNCHANGED <<store, log>>
  /\ UNCHANGED <<build, catalog, clock>>

\* ------------------------------------------------- GET /api/thank-you
\* a query parameter given twice: Express parses it to an array
ArrayValue == "[array]"

\* the values a required query parameter can arrive with besides a usable one
Unusable == {Undefined, "", ArrayValue}

\* mutant of NoString: the typeof test is missing
NoStringTruthy(x) == Falsy(x)

\* !x || typeof x !== "string"
NoString(x) == Falsy(x) \/ x = ArrayValue

\* the handler up to its first await
ThankYou(r) ==
  /\ Arrives(r)
  /\ HasRoute("/api/thank-you")
  /\ \E session_id \in SessionIds \cup Unusable :
       LET q == [req[r] EXCEPT !.route = "/api/thank-you",
                               !.fault = IF session_id \in Unusable
                                         THEN "input" ELSE ""]
       IN  req' = [req EXCEPT ![r] =
             IF NoString(session_id)
             THEN Done(Send(q, 400))
             ELSE [q EXCEPT !.pc = "retrieve", !.ref = session_id,
                            !.calls = @ + 1]]
  /\ UNCHANGED <<build, catalog, clock, store, log>>

\* mutant of CatchProviderFault: the failure is reported as "not found"
CatchAsNotFound(q) == Done(Send(q, 404))

\* the catch block of thank-you, paystack-confirmation and
\* create-trial-subscription: console.error, res.status(500).json(...)
CatchProviderFault(q) == Done(Send(q, 500))

\* stripe.checkout.sessions.retrieve settles
RetrieveReturn(r) ==
  /\ req[r].pc = "retrieve"
  /\ \E ok \in BOOLEAN :
       LET q == req[r]
       IN  req' = [req EXCEPT ![r] =
             IF ok
             THEN [q EXCEPT !.pc = "query",
                            !.email = CustomerDetailsEmail(SessionEmail(q.ref))]
             ELSE CatchProviderFault([q EXCEPT !.fault = "api"])]
  /\ UNCHANGED <<build, catalog, clock, store, log>>

\* the part of both confirmation handlers after the query: 404 when the
\* snapshot is empty, else 200 with the id of docs[0]
QueryResult(q, st) ==
  LET docs == WhereEmail(st, q.email)
  IN  IF docs = <<>>
      THEN Done(Send(q, 404))
      ELSE Done(Send([q EXCEPT !.documentId = docs[1]], 200))

\* the tokens query of thank-you settles
ThankYouQueryReturn(r) ==
  /\ req[r].pc = "query"
  /\ req[r].route = "/api/thank-you"
  /\ \E ok \in BOOLEAN :
       req' = [req EXCEPT ![r] =
         IF ok THEN QueryResult(req[r], store)
               ELSE CatchProviderFault([req[r] EXCEPT !.fault = "store"])]
  /\ UNCHANGED <<build, catalog, clock, store, log>>

\* ------------------------------------- GET /api/paystack-confirmation
PaystackConfirmation(r) ==
  /\ Arrives(r)
  /\ HasRoute("/api/paystack-confirmation")
  /\ \E reference \in References \cup Unusable :
       LET q == [req[r] EXCEPT !.route = "/api/paystack-confirmation",
                               !.fault = IF reference \in Unusable
                                         THEN "input" ELSE ""]
       IN  req' = [req EXCEPT ![r] =
             IF NoString(reference)
             THEN Done(Send(q, 400))
             ELSE [q EXCEPT !.pc = "verify", !.ref = reference,
                            !.calls = @ + 1]]
  /\ UNCHANGED <<build, catalog, clock, store, log>>

\* axios.get(transaction/verify) settles
VerifyReturn(r) ==
  /\ req[r].pc = "verify"
  /\ \E ok \in BOOLEAN :
       LET q == req[r]
           email == ReferenceEmail(q.ref)
       IN  req' = [req EXCEPT ![r] =
             IF ~ok THEN CatchProviderFault([q EXCEPT !.fault = "api"])
             ELSE IF Falsy(email) THEN Done(Send(q, 404))
             ELSE [q EXCEPT !.pc = "query", !.email = email]]
  /\ UNCHANGED <<build, catalog, clock, store, log>>

\* the tokens query of paystack-confirmation settles
ConfirmationQueryReturn(r) ==
  /\ req[r].pc = "query"
  /\ req[r].route = "/api/paystack-confirmation"
  /\ \E ok \in BOOLEAN :
       req' = [req EXCEPT ![r] =
         IF ok THEN QueryResult(req[r], store)
               ELSE CatchProviderFault([req[r] EXCEPT !.fault = "store"])]
  /\ UNCHANGED <<build, catalog, clock, store, log>>

\* ------------------------------------------------------------ GET /ping
Ping(r) ==
  /\ Arrives(r)
  /\ HasRoute("/ping")
  /\ req' = [req EXCEPT ![r] = Done(Send([req[r] EXCEPT !.route = "/ping"], 200))]
  /\ UNCHANGED <<build, catalog, clock, store, log>>

\* ------------------------------------- POST /create-trial-subscription
CreateTrialSubscription(r) ==
  /\ Arrives(r)
  /\ HasRoute("/create-trial-subscription")
  /\ req' = [req EXCEPT ![r] =
       [req[r] EXCEPT !.route = "/create-trial-subscription",
                      !.pc = "create", !.calls = @ + 1]]
  /\ UNCHANGED <<build, catalog, clock, store, log>>

\* stripe.checkout.sessions.create settles
CreateSessionReturn(r) ==
  /\ req[r].pc = "create"
  /\ \E ok \in BOOLEAN :
       req' = [req EXCEPT ![r] =
         IF ok THEN Done(Send(req[r], 200))
               ELSE CatchProviderFault([req[r] EXCEPT !.fault = "api"])]
  /\ UNCHANGED <<build, catalog, clock, store, log>>

\* ------------------------------------ POST /paystack/webhook (Provider B)
\* the x-paystack-signature headers a delivery can carry: none, the right one,
\* one made with another key, one made for another body
PaystackHeaders(body) ==
  {NoHeader,
   HmacSha512Hex(PaystackSecret, Stringify(body)),
   HmacSha512Hex(WrongKey, Stringify(body)),
   HmacSha512Hex(PaystackSecret,
                 Stringify([body EXCEPT !.event = IF @ = "charge.success"
                                                  THEN "invoice.create"
                                                  ELSE "charge.success"]))}

\* mutant of SignatureMismatch: a delivery without the header is let through
SignatureMismatchIfPresent(hash, header) == header # <<>> /\ hash # header

\* hash !== req.headers["x-paystack-signature"]
SignatureMismatch(hash, header) == hash # header

\* mutant of PaystackRecognized: every event type is processed
PaystackRecognizedAny(event) == TRUE

\* event.event === "subscription.create" || event.event === "charge.success"
PaystackRecognized(event) ==
  event = "subscription.create" \/ event = "charge.success"

\* an exception leaves the async handler: its promise rejects.  What the
\* client gets depends on the Express release the build runs on, which the
\* sources do not fix: Express 4 ignores the rejection and sends nothing,
\* Express 5 hands it to the default error handler, which answers 500.
Uncaught(q) ==
  {Done([q EXCEPT !.rejected = TRUE]),
   Done(Send([q EXCEPT !.rejected = TRUE], 500))}

\* the handler up to its await.  event.data.customer.email throws a TypeError
\* outside any try block when the payload has no customer.  add() refuses a
\* document whose email is undefined; that throw is caught and logged.
PaystackWebhook(r) ==
  /\ Arrives(r)
  /\ HasRoute("/paystack/webhook")
  /\ \E body \in PaystackBodies(catalog) :
       \E header \in PaystackHeaders(body) :
         LET hash == HmacSha512Hex(PaystackSecret, Stringify(body))
             q == [req[r] EXCEPT !.route = "/paystack/webhook",
                                 !.sigOk = (header = HmacSha512Hex(
                                     PaystackSecret, Stringify(body)))]
             qv == [q EXCEPT !.evType = body.event]
             customerEmail == body.customer[1]
             planName == PlanName(body.plan)
             expiresAt == ExpiresAt(DateNow, DurationDays(planName))
             doc == PaystackDoc(customerEmail, expiresAt, planName)
             outcomes ==
               IF SignatureMismatch(hash, header) THEN {Done(Send(q, 401))}
               ELSE IF ~PaystackRecognized(body.event) THEN {Done(Send(qv, 200))}
               ELSE IF body.customer = <<>> THEN Uncaught(qv)
               ELSE IF ~ValidDoc(doc)
                    THEN {Done(Send([qv EXCEPT !.email = customerEmail,
                                               !.fault = "store"], 200))}
               ELSE {[qv EXCEPT !.pc = "add", !.email = customerEmail,
                                !.desc = body.plan,
                                !.at = DateNow, !.doc = doc]}
         IN  \E out \in outcomes : req' = [req EXCEPT ![r] = out]
  /\ UNCHANGED <<build, catalog, clock, store, log>>

\* db.collection("tokens").add(...) settles
PaystackAddReturn(r) ==
  /\ req[r].pc = "add"
  /\ req[r].route = "/paystack/webhook"
  /\ \/ \E id \in FreshIds(store) :
          /\ store' = store @@ (id :> req[r].doc)
          /\ log' = Append(log, Written(id, r, req[r]))
          /\ req' = [req EXCEPT ![r] = Done(Send([req[r] EXCEPT !.wrote = id], 200))]
     \/ /\ req' = [req EXCEPT ![r] =
                     Done(Send([req[r] EXCEPT !.fault = "store"], 200))]
        /\ UNCHANGED <<store, log>>
  /\ UNCHANGED <<build, catalog, clock>>

\* ----------------------------------------- POST /api/create-dummy-user
Tokens == {"tok", Undefined}

\* the handler up to its await; doc(customId) throws inside the try block
\* when customId is no valid document path
CreateDummyUser(r) ==
  /\ Arrives(r)
  /\ HasRoute("/api/create-dummy-user")
  /\ \E email \in DummyEmails, token \in Tokens, customId \in CustomIds :
       LET q == [req[r] EXCEPT !.route = "/api/create-dummy-user",
                               !.fault = IF \/ email \in {Undefined, ""}
                                            \/ token \in {Undefined, ""}
                                            \/ ~customId.present
                                         THEN "input" ELSE ""]
       IN  req' = [req EXCEPT ![r] =
             IF Falsy(email) \/ Falsy(token) \/ ~customId.present
             THEN Done(Send(q, 400))
             ELSE IF ~customId.valid
                  THEN Done(Send([q EXCEPT !.email = email], 500))
             ELSE [q EXCEPT !.pc = "set", !.email = email,
                            !.target = customId.id, !.doc = DummyDoc(email)]]
  /\ UNCHANGED <<build, catalog, clock, store, log>>

\* docRef.set(...) settles: the document at customId is created or replaced,
\* or the write fails
SetReturn(r) ==
  /\ req[r].pc = "set"
  /\ \/ /\ store' = (req[r].target :> req[r].doc) @@ store
        /\ log' = Append(log, Written(req[r].target, r, req[r]))
        /\ req' = [req EXCEPT ![r] =
                     Done(Send([req[r] EXCEPT !.wrote = req[r].target], 200))]
     \/ /\ req' = [req EXCEPT ![r] =
                     Done(Send([req[r] EXCEPT !.fault = "store"], 500))]
        /\ UNCHANGED <<store, log>>
  /\ UNCHANGED <<build, catalog, clock>>

Next ==
  \/ Tick
  \/ \E r \in Requests : StripeWebhook(r)
  \/ \E r \in Requests : ListLineItemsReturn(r)
  \/ \E r \in Requests : StripeAddReturn(r)
  \/ \E r \in Requests : ThankYou(r)
  \/ \E r \in Requests : RetrieveReturn(r)
  \/ \E r \in Requests : ThankYouQueryReturn(r)
  \/ \E r \in Requests : PaystackConfirmation(r)
  \/ \E r \in Requests : VerifyReturn(r)
  \/ \E r \in Requests : ConfirmationQueryReturn(r)
  \/ \E r \in Requests : Ping(r)
  \/ \E r \in Requests : CreateTrialSubscription(r)
  \/ \E r \in Requests : CreateSessionReturn(r)
  \/ \E r \in Requests : PaystackWebhook(r)
  \/ \E r \in Requests : PaystackAddReturn(r)
  \/ \E r \in Requests : CreateDummyUser(r)
  \/ \E r \in Requests : SetReturn(r)

Spec == Init /\ [][Next]_vars

\* what the collection can hold when the server starts: nothing, or a
\* document an earlier run of the Stripe webhook wrote for a@x.com
PriorStores ==
  {<< >>,
   (1 :> StripeDoc("a@x.com", ExpiresAt([StartTime EXCEPT !.secs = 0], DefaultDays)))}

\* one request, against the full catalog and a store that may not be empty
InitSolo ==
  /\ build \in Builds
  /\ catalog = FullCatalog
  /\ clock = 0
  /\ store \in PriorStores
  /\ log = << >>
  /\ req = [r \in Requests |->
              IF r = 1 THEN NewRequest ELSE [NewRequest EXCEPT !.pc = "off"]]

SpecSolo == InitSolo /\ [][Next]_vars

\* the server some time after a Stripe checkout of a@x.com was delivered and
\* stored as document 1 by a request (number 0) that is long finished; the
\* requests modelled arrive after that
InitLater ==
  /\ build \in Builds
  /\ catalog = SmallCatalog
  /\ clock = 0
  /\ store = (1 :> StripeDoc("a@x.com",
                             ExpiresAt([StartTime EXCEPT !.secs = 0], DefaultDays)))
  /\ log = << [id |-> 1, at |-> [days |-> StartTime.days, secs |-> 0], by |-> 0,
               route |-> "/webhook", email |-> "a@x.com"] >>
  /\ req = [r \in Requests |-> NewRequest]

SpecLater == InitLater /\ [][Next]_vars


\* ================================================================ claims
\* request r has been answered or abandoned by its handler
Finished(r) == req[r].pc = "done"

\* the store accepted no write from request r
NoWriteBy(r) ==
  /\ req[r].wrote = 0
  /\ \A i \in DOMAIN log : log[i].by # r

\* a Stripe delivery whose signature verified
VerifiedStripe(r) == req[r].route = "/webhook" /\ req[r].sigOk

\* a verified checkout-completed delivery whose session has no customer email
NoEmailCheckout(r) ==
  /\ VerifiedStripe(r)
  /\ req[r].evType = "checkout.session.completed"
  /\ SessionEmail(req[r].ref) \in {Undefined, ""}

\* C1 (as stated): once the signature of a Provider-A delivery verifies, the
\* request is answered 200 on every downstream outcome, except a
\* checkout-completed event without customer email, which is answered 400.
C1_AlwaysAck ==
  \A r \in Requests :
    (Finished(r) /\ VerifiedStripe(r)) =>
      IF NoEmailCheckout(r) THEN req[r].status = 400 ELSE req[r].status = 200

\* C1 (amended): a verified Provider-A delivery is answered 200 when the event
\* type is not recognized or the entitlement was written, 500 when the
\* line-item lookup or the store write failed, and 400 when a
\* checkout-completed event has no customer email.
C1_VerifiedStatus ==
  \A r \in Requests :
    (Finished(r) /\ VerifiedStripe(r)) =>
      IF req[r].evType # "checkout.session.completed" THEN req[r].status = 200
      ELSE IF NoEmailCheckout(r) THEN req[r].status = 400
      ELSE IF req[r].wrote # 0 THEN req[r].status = 200
      ELSE req[r].status = 500

\* a verified checkout delivery whose lookup or write failed has been answered
C1_Witness ==
  \E r \in Requests :
    /\ Finished(r) /\ VerifiedStripe(r)
    /\ req[r].evType = "checkout.session.completed"
    /\ req[r].calls = 1 /\ req[r].wrote = 0 /\ req[r].status = 500

\* C2: a verified Provider-A checkout-completed event whose session has no
\* customer email is answered 400, the line-item lookup is never called and
\* the store receives no write.
C2_NoEmailRejected ==
  \A r \in Requests :
    NoEmailCheckout(r) =>
      /\ Finished(r)
      /\ req[r].status = 400
      /\ req[r].calls = 0
      /\ NoWriteBy(r)

C2_Witness ==
  \E r \in Requests : NoEmailCheckout(r) /\ Finished(r) /\ req[r].status = 400

\* C3: a Provider-B delivery whose signature header is not the hex
\* HMAC-SHA-512 of the serialized body under the shared secret (an absent
\* header included) is answered 401 and writes nothing to the store.
C3_BadSignature401 ==
  \A r \in Requests :
    (req[r].route = "/paystack/webhook" /\ ~req[r].sigOk) =>
      /\ Finished(r)
      /\ req[r].status = 401
      /\ NoWriteBy(r)

C3_Witness ==
  \E r \in Requests :
    /\ req[r].route = "/paystack/webhook" /\ ~req[r].sigOk
    /\ Finished(r) /\ req[r].status = 401

\* C4: a Provider-A delivery whose signature verification fails is rejected
\* at once with 400 and has no side effect: no line-item lookup, no store
\* write, and no other response for that request.
C4_BadSignature400 ==
  \A r \in Requests :
    (req[r].route = "/webhook" /\ ~req[r].sigOk) =>
      /\ Finished(r)
      /\ req[r].status = 400
      /\ req[r].sends = 1
      /\ ~req[r].rejected
      /\ req[r].calls = 0
      /\ NoWriteBy(r)

C4_Witness ==
  \E r \in Requests :
    /\ req[r].route = "/webhook" /\ ~req[r].sigOk
    /\ Finished(r) /\ req[r].status = 400


\* ---- the duration policy as the specification words it
\* descriptor d contains pat, letter case ignored (pat is lower case)
ContainsIgnoringCase(d, pat) ==
  \E i \in 1..Len(d) :
    /\ i + Len(pat) - 1 <= Len(d)
    /\ \A k \in 1..Len(pat) : ToLowerChar(d[i + k - 1]) = pat[k]

\* ordered, first match wins; an absent descriptor counts as the empty one
PolicyDays(opt) ==
  LET d == IF opt = <<>> THEN <<>> ELSE opt[1]
  IN  IF ContainsIgnoringCase(d, <<"7">>) THEN 7
      ELSE IF ContainsIgnoringCase(d, <<"3","0">>) THEN 30
      ELSE IF ContainsIgnoringCase(d, <<"y","e","a","r">>) THEN 365
      ELSE 30

\* the Unix time in whole seconds of an instant, and that time n days later
WholeSeconds(t) == [days |-> t.days, secs |-> t.secs]
DaysAfter(t, n) == [days |-> t.days + n, secs |-> t.secs]

\* request r is a webhook delivery waiting for its add() to settle
AwaitsAdd(r) ==
  /\ req[r].pc = "add"
  /\ req[r].route \in {"/webhook", "/paystack/webhook"}

\* C5: a valid Provider-A checkout-completed event with customer email e whose
\* line-item lookup and store write succeed adds exactly one entitlement to
\* the store, with email e, deviceId "", isRadioOff false and expiresAt = Unix
\* seconds at handling + durationDays * 86400, durationDays classified from
\* the first line item's description ("Year Plan": 365 days, isTrial false).
C5_CheckoutWritesOne ==
  [][\A r \in Requests :
       (req[r].route = "/webhook" /\ req[r].pc = "add" /\ req'[r].wrote # 0) =>
         LET id == req'[r].wrote
             handled == WholeSeconds(req[r].at)
         IN  /\ id \notin DOMAIN store
             /\ DOMAIN store' = DOMAIN store \cup {id}
             /\ \A k \in DOMAIN store : store'[k] = store[k]
             /\ req'[r].status = 200
             /\ store'[id].email = SessionEmail(req[r].ref)
             /\ store'[id].email \notin {"", Undefined}
             /\ store'[id].deviceId = ""
             /\ store'[id].isRadioOff = FALSE
             /\ store'[id].expiresAt = DaysAfter(handled, PolicyDays(req[r].desc))
             /\ (req[r].desc = <<D_YearPlan>> =>
                   /\ store'[id].expiresAt = DaysAfter(handled, 365)
                   /\ store'[id].isTrial = FALSE)]_vars

\* a "Year Plan" checkout has been written, 365 days ahead of its handling
C5_Witness ==
  \E r \in Requests :
    /\ Finished(r) /\ req[r].route = "/webhook" /\ req[r].wrote \in DOMAIN store
    /\ req[r].status = 200
    /\ store[req[r].wrote].email = SessionEmail(req[r].ref)
    /\ \E c \in 0..MaxClock :
         store[req[r].wrote].expiresAt = DaysAfter(WholeSeconds(DateNowAt(c)), 365)

\* C6 (as stated): for a verified recognized event of either provider whose
\* descriptor contains "7", the entitlement written has expiresAt = now + 7
\* days and isTrial = true.
C6_SevenIsTrial ==
  [][\A r \in Requests :
       (AwaitsAdd(r) /\ req'[r].wrote # 0
          /\ ContainsIgnoringCase(IF req[r].desc = <<>> THEN <<>> ELSE req[r].desc[1],
                                  <<"7">>)) =>
         /\ store'[req'[r].wrote].expiresAt = DaysAfter(WholeSeconds(req[r].at), 7)
         /\ store'[req'[r].wrote].isTrial = TRUE]_vars

\* C7: both webhook handlers classify the duration by the ordered,
\* case-insensitive, first-match-wins policy "7" -> 7 days, else "30" -> 30,
\* else "year" -> 365, else 30; an absent or empty descriptor gives 30 days
\* and isTrial false, "7" with "year" gives 7, "30" with "year" gives 30.
C7_DurationPolicy ==
  \A r \in Requests :
    AwaitsAdd(r) =>
      LET handled == WholeSeconds(req[r].at)
          d == req[r].desc
      IN  /\ req[r].doc.expiresAt = DaysAfter(handled, PolicyDays(d))
          /\ (d \in {<<>>, <<D_Empty>>} =>
                /\ req[r].doc.expiresAt = DaysAfter(handled, 30)
                /\ req[r].doc.isTrial = FALSE)
          /\ (d = <<D_7Year>> => req[r].doc.expiresAt = DaysAfter(handled, 7))
          /\ (d = <<D_30Year>> => req[r].doc.expiresAt = DaysAfter(handled, 30))

\* a handler has classified a descriptor holding both "30" and "year"
C7_Witness ==
  \E r \in Requests :
    /\ AwaitsAdd(r)
    /\ req[r].desc = <<D_30Year>>
    /\ req[r].doc.expiresAt = DaysAfter(WholeSeconds(req[r].at), 30)

\* the webhook deliveries whose entitlement the store accepted
Delivered ==
  {r \in Requests :
     /\ Finished(r)
     /\ req[r].route \in {"/webhook", "/paystack/webhook"}
     /\ req[r].wrote # 0}

\* C8: write handling is not idempotent: every successfully processed
\* recognized webhook delivery adds a record of its own, so n deliveries leave
\* n records under n different ids (the same event delivered twice: two).
C8_OneRecordPerDelivery ==
  /\ \A r \in Delivered : req[r].wrote \in DOMAIN store
  /\ \A r1, r2 \in Delivered : r1 # r2 => req[r1].wrote # req[r2].wrote
  /\ Cardinality(DOMAIN store) >= Cardinality(Delivered)

\* the same Stripe event was delivered twice and the store holds two equal
\* documents under two ids
C8_Witness ==
  \E r1, r2 \in Delivered :
    /\ r1 # r2
    /\ req[r1].route = "/webhook" /\ req[r2].route = "/webhook"
    /\ req[r1].ref = req[r2].ref
    /\ req[r1].wrote # req[r2].wrote
    /\ store[req[r1].wrote] = store[req[r2].wrote]

\* C9 (as stated): entitlements are immutable and the store is append-only: a
\* record that exists under some id keeps that id and its field values in
\* every later state and is never removed.
C9_Immutable ==
  [][\A id \in DOMAIN store : id \in DOMAIN store' /\ store'[id] = store[id]]_vars

\* the Unix time of the latest write to document id
WrittenAt(id) ==
  LET last == CHOOSE i \in DOMAIN log :
                /\ log[i].id = id
                /\ \A j \in DOMAIN log : log[j].id = id => j <= i
  IN  log[last].at

\* C10 (as stated): in every reachable state every entitlement in the store
\* has a non-empty email and an expiresAt strictly greater than the Unix time
\* at which it was created.
C10_EmailAndFutureExpiry ==
  \A id \in DOMAIN store :
    /\ store[id].email \notin {"", Undefined}
    /\ (\E i \in DOMAIN log : log[i].id = id) =>
         TimeLess(WrittenAt(id), store[id].expiresAt)

\* C11: whenever a call to a payment provider's API fails while a request is
\* handled (line-item fetch, session retrieval, reference verification,
\* session creation), the request is answered 500 and the store accepts no
\* write from it.
C11_ProviderFault500 ==
  \A r \in Requests :
    req[r].fault = "api" =>
      /\ Finished(r)
      /\ req[r].status = 500
      /\ NoWriteBy(r)

\* a session retrieval of thank-you has failed and was answered
C11_Witness ==
  \E r \in Requests :
    /\ req[r].fault = "api" /\ req[r].route = "/api/thank-you"
    /\ Finished(r) /\ req[r].status = 500

\* a signature-verified delivery of either provider whose event type is not
\* one the handler processes
UnrecognizedEvent(r) ==
  /\ req[r].sigOk
  /\ \/ /\ req[r].route = "/webhook"
        /\ req[r].evType # "checkout.session.completed"
     \/ /\ req[r].route = "/paystack/webhook"
        /\ req[r].evType \notin {"subscription.create", "charge.success"}

\* C12: for either provider a signature-verified event of an unrecognized
\* type is a no-op: no provider API is called, the store receives no write,
\* and the request is acknowledged with 200.
C12_UnrecognizedNoOp ==
  \A r \in Requests :
    UnrecognizedEvent(r) =>
      /\ Finished(r)
      /\ req[r].status = 200
      /\ req[r].calls = 0
      /\ NoWriteBy(r)

\* an invoice.create delivery of Provider B has been acknowledged
C12_Witness ==
  \E r \in Requests :
    /\ UnrecognizedEvent(r) /\ req[r].route = "/paystack/webhook"
    /\ req[r].evType = "invoice.create"
    /\ Finished(r) /\ req[r].status = 200

\* a Provider-B delivery whose signature matches
VerifiedPaystack(r) == req[r].route = "/paystack/webhook" /\ req[r].sigOk

\* C13 (as stated): every Provider-B webhook request whose signature matches
\* is answered 200, for every event type and payload shape (a recognized
\* event without customer object or without plan included) and also when the
\* store write fails, in which case the store holds no entitlement of that
\* request.
C13_PaystackAlways200 ==
  \A r \in Requests :
    (VerifiedPaystack(r) /\ Finished(r)) =>
      /\ req[r].status = 200
      /\ req[r].sends = 1
      /\ (req[r].fault = "store" => NoWriteBy(r))

\* a webhook delivery for a purchase with email e has had its write accepted
WebhookWrote(e) ==
  \E i \in DOMAIN log :
    /\ log[i].route \in {"/webhook", "/paystack/webhook"}
    /\ log[i].email = e

\* request c is a confirmation request whose provider lookup has succeeded
\* and whose store query settles in this step without failing
ConfirmationReads(c) ==
  /\ req[c].pc = "query"
  /\ req'[c].pc = "done"
  /\ req'[c].fault = ""

\* C14 (as stated, safety part): a confirmation request for a purchase with
\* email e that reads while no entitlement with email e is stored is answered
\* 404 and changes nothing; once the webhook's write for the purchase has
\* completed, every later confirmation read for it is answered 200.
C14_ConfirmationTolerant ==
  [][\A c \in Requests :
       ConfirmationReads(c) =>
         /\ (WhereEmail(store, req[c].email) = <<>> =>
               req'[c].status = 404 /\ store' = store /\ log' = log)
         /\ (WebhookWrote(req[c].email) => req'[c].status = 200)]_vars

\* the customer email of the purchase a confirmation request names: that of
\* the Provider-A session, or the one Provider B's verification returns
PurchaseEmail(q) ==
  IF q.route = "/api/thank-you" THEN SessionEmail(q.ref)
                                ELSE ReferenceEmail(q.ref)

\* the stored entitlements whose email is the customer email of the purchase
Matching(q, st) ==
  {id \in DOMAIN st :
     PurchaseEmail(q) # Undefined /\ st[id].email = PurchaseEmail(q)}

\* request c is a confirmation request whose provider lookup has succeeded
\* and which is answered in this step, no call having failed
ConfirmationAnswers(c) ==
  /\ req[c].route \in {"/api/thank-you", "/api/paystack-confirmation"}
  /\ req[c].pc \in {"verify", "query"}
  /\ req'[c].pc = "done"
  /\ req'[c].fault = ""

\* C15 (as stated): every 200 response of thank-you and of
\* paystack-confirmation returns the documentId of an entitlement that is in
\* the store at that moment and whose email is the customer email of the
\* purchase; when no entitlement matches that email (a purchase without
\* customer email included) the response is 404, never 200.
C15_ConfirmationMatches ==
  [][\A c \in Requests :
       ConfirmationAnswers(c) =>
         /\ (req'[c].status = 200 => req'[c].documentId \in Matching(req[c], store))
         /\ (Matching(req[c], store) = {} => req'[c].status = 404)]_vars

\* the documentId the confirmation endpoints return for email e in store st
Lookup(st, e) == WhereEmail(st, e)[1]

\* the id under which history h has the first record with email e inserted
FirstInserted(h, e) ==
  LET first == CHOOSE i \in DOMAIN h :
                 /\ h[i].email = e
                 /\ \A j \in DOMAIN h : h[j].email = e => i <= j
  IN  h[first].id

\* C16 (as stated): with several entitlements of one email in the store the
\* lookup by email returns the one inserted first, and a webhook adding a
\* later record with that email does not change the documentId returned.
C16_FirstInsertedWins ==
  [][\A r \in Requests :
       (AwaitsAdd(r) /\ req'[r].wrote # 0
          /\ WhereEmail(store, req[r].doc.email) # <<>>) =>
         LET e == req[r].doc.email
         IN  /\ Len(WhereEmail(store', e)) = Len(WhereEmail(store, e)) + 1
             /\ Lookup(store', e) = Lookup(store, e)
             /\ Lookup(store', e) = FirstInserted(log', e)]_vars

\* C17: a request missing a required input (thank-you without a string
\* session_id, paystack-confirmation without a string reference,
\* create-dummy-user without email, token or customId) is answered 400, calls
\* no provider API and leaves the store as it was.
C17_MissingInput400 ==
  \A r \in Requests :
    req[r].fault = "input" =>
      /\ Finished(r)
      /\ req[r].status = 400
      /\ req[r].sends = 1
      /\ req[r].calls = 0
      /\ NoWriteBy(r)

\* a create-dummy-user request with a field missing has been turned down
C17_Witness ==
  \E r \in Requests :
    /\ req[r].fault = "input" /\ req[r].route = "/api/create-dummy-user"
    /\ Finished(r) /\ req[r].status = 400 /\ store = << >>

\* the ids whose document this step creates or replaces
WrittenNow == {id \in DOMAIN store' : id \notin DOMAIN store \/ store'[id] # store[id]}

\* C18: every entitlement with isTrial = true was created with the 7-day
\* duration, its expiresAt being its creation time + 7 * 86400; no
\* entitlement of 30 or 365 days and none created by create-dummy-user has
\* isTrial = true.
C18_TrialOnlySevenDays ==
  [][\A id \in WrittenNow :
       /\ store'[id].isTrial =>
            \E r \in Requests :
              /\ AwaitsAdd(r) /\ req'[r].wrote = id
              /\ PolicyDays(req[r].desc) = 7
              /\ store'[id].expiresAt = DaysAfter(WholeSeconds(req[r].at), 7)
       /\ \A r \in Requests :
            (AwaitsAdd(r) /\ req'[r].wrote = id
               /\ store'[id].expiresAt \in
                    {DaysAfter(WholeSeconds(req[r].at), 30),
                     DaysAfter(WholeSeconds(req[r].at), 365)}) =>
              store'[id].isTrial = FALSE
       /\ \A r \in Requests :
            (req[r].pc = "set" /\ req'[r].wrote = id) =>
              store'[id].isTrial = FALSE]_vars

\* the store holds a trial entitlement that expires 7 days after a handling
\* instant
C18_Witness ==
  \E id \in DOMAIN store :
    /\ store[id].isTrial
    /\ \E c \in 0..MaxClock :
         store[id].expiresAt = DaysAfter(WholeSeconds(DateNowAt(c)), 7)

\* another webhook delivery is being handled, or has been stored, while r
\* waits for its write
OtherDelivery(r) ==
  \E r2 \in Requests \ {r} :
    /\ req[r2].route \in {"/webhook", "/paystack/webhook"}
    /\ req[r2].pc \in {"listLineItems", "add"} \/ r2 \in Delivered

\* C19 (as stated): for every interleaving of two concurrently handled,
\* successfully processed webhook deliveries (e1, d1) and (e2, d2), the store
\* ends with exactly two new records, one holding e1 with the duration and
\* trial flag classified from d1 and one holding e2 with those classified
\* from d2; no write is lost and no field of one appears in the other.
C19_IndependentDeliveries ==
  [][\A r \in Requests :
       (AwaitsAdd(r) /\ req'[r].wrote # 0 /\ OtherDelivery(r)) =>
         LET id == req'[r].wrote
         IN  /\ id \notin DOMAIN store
             /\ DOMAIN store' = DOMAIN store \cup {id}
             /\ \A k \in DOMAIN store : store'[k] = store[k]
             /\ store'[id].email = req[r].email
             /\ store'[id].expiresAt =
                  DaysAfter(WholeSeconds(req[r].at), PolicyDays(req[r].desc))
             /\ store'[id].isTrial = (PolicyDays(req[r].desc) = 7)
             /\ \A r2 \in Delivered \ {r} :
                  /\ req[r2].wrote # id
                  /\ store'[req[r2].wrote].email = req[r2].email
                  /\ Cardinality(DOMAIN store') = 2]_vars

\* C20 (as stated): every request to every handler, on every execution path,
\* is answered by exactly one HTTP response: no path ends without a response
\* and no path sends a second one; the Provider-A webhook sends exactly one
\* both when the write succeeds and when the lookup or the write fails.
C20_ExactlyOneResponse ==
  \A r \in Requests :
    Finished(r) => req[r].sends = 1 /\ ~req[r].rejected

====
